---- MODULE Spec2Model ----
(***************************************************************************)
(* Model of the chord-accompaniment service (src/midigen/main.py,          *)
(* src/midigen/util.py): the transforms of util.py, the combine_midi       *)
(* handler statement by statement, and the files two concurrent requests   *)
(* touch.                                                                  *)
(*                                                                         *)
(* Times are integer milliseconds (0.001 s is 1), so the tolerance of      *)
(* connect_chord_notes_grouped is 1 and the beat table is 500 / 660 /      *)
(* 1000.  A PrettyMIDI object is a sequence of instruments; an instrument  *)
(* is [is_drum, notes]; a note is [id, pitch, velocity, start, end,        *)
(* dummy].  id stands for the identity of the Python object (the code      *)
(* mutates notes in place and re-orders the list), dummy for               *)
(* hasattr(note, "_dummy") and note._dummy.                                *)
(***************************************************************************)
EXTENDS Integers, Sequences, FiniteSets, TLC

VARIABLES
    midi,       \* the PrettyMIDI object the transforms work on
    before,     \* midi as it was when the last transform was called
    orig,       \* midi as it was parsed or synthesized, before any transform
    op,         \* the last transform called ("input" before any)
    arg,        \* the argument of the last transform called (0 if none)
    calls,      \* number of transforms called so far
    pc,         \* combine_midi: the statement the handler is at
    req,        \* combine_midi: the request's form fields, converted
    src,        \* combine_midi: the uploaded source MIDI file
    loc,        \* combine_midi: the handler's local variables
    measures,   \* combine_midi: the list generate_chord_measures returned
    output,     \* combine_midi: the instruments written to the output file
    response,   \* combine_midi: the HTTP response
    files,      \* the upload folder: what each path holds
    inv         \* concurrent combine_midi requests: where each one is

utilVars == <<midi, before, orig, op, arg, calls>>

pipeVars == <<pc, req, src, loc, measures, output, response>>

fsVars == <<files, inv>>

vars == <<utilVars, pipeVars, fsVars>>

(***************************************************************************)
(* Bounds of the model.                                                    *)
(***************************************************************************)
MaxNotes == 3
MaxCalls == 2
MaxWholeMeasures == 6
MaxNumerator == 6
MaxProgression == 5

(***************************************************************************)
(* The upload folder.  A path holds nothing, an upload, or a merged file;  *)
(* `of` is the request whose upload the melody in the file came from.      *)
(***************************************************************************)
output_file == "combined_output.mid"

\* secure_filename(file.filename) for the names the clients send.
UploadNames == {"a.mid", "b.mid", output_file}

Absent == [kind |-> "absent", of |-> 0]

NoFiles == [path \in UploadNames |-> Absent]

(***************************************************************************)
(* Helpers.                                                                *)
(***************************************************************************)
Abs(x) == IF x < 0 THEN -x ELSE x

Range(s) == {s[i] : i \in DOMAIN s}

SetMax(S) == CHOOSE x \in S : \A y \in S : y <= x

SetMin(S) == CHOOSE x \in S : \A y \in S : x <= y

\* TRUE; comparing v makes TLC compute v here.  The loops of the code are
\* written as folds over a range that is halved, with the value carried by
\* the loop computed before each half: the evaluation stays shallow on the
\* pipeline's lists of several hundred notes.
Evaluated(v) == v = v

\* A function on 1..n as the list it is (evaluated at once).
AsList(f) == SubSeq(f, 1, Len(f))

SeqsUpTo(S, n) == UNION {[1..k -> S] : k \in 0..n}

(***************************************************************************)
(* util.py: the in-place transforms of a PrettyMIDI object.                *)
(***************************************************************************)

\* mark_dummy_notes: flag the pitch-0 notes of every non-drum instrument.
mark_dummy_notes(m) ==
    [i \in DOMAIN m |->
        IF m[i].is_drum THEN m[i]
        ELSE [m[i] EXCEPT !.notes =
                [k \in DOMAIN m[i].notes |->
                    IF m[i].notes[k].pitch = 0
                    THEN [m[i].notes[k] EXCEPT !.dummy = TRUE]
                    ELSE m[i].notes[k]]]]

\* apply_volume_to_midi: every instrument (drums too), dummy notes skipped.
apply_volume_to_midi(m, volume) ==
    [i \in DOMAIN m |->
        [m[i] EXCEPT !.notes =
            [k \in DOMAIN m[i].notes |->
                IF m[i].notes[k].dummy THEN m[i].notes[k]
                ELSE [m[i].notes[k] EXCEPT !.velocity = volume]]]]

\* The clamp of transpose_midi: max(0, min(new_pitch, 127)).
ClampPitchNoFloor(new_pitch) == IF new_pitch > 127 THEN 127 ELSE new_pitch

ClampPitch(new_pitch) ==
    LET lo == IF new_pitch < 127 THEN new_pitch ELSE 127
    IN  IF lo > 0 THEN lo ELSE 0

\* transpose_midi: non-drum instruments, dummy notes skipped.
transpose_midi(m, semitones) ==
    [i \in DOMAIN m |->
        IF m[i].is_drum THEN m[i]
        ELSE [m[i] EXCEPT !.notes =
                [k \in DOMAIN m[i].notes |->
                    IF m[i].notes[k].dummy THEN m[i].notes[k]
                    ELSE [m[i].notes[k] EXCEPT
                            !.pitch = ClampPitch(@ + semitones)]]]]

\* The body of adjust_chord_duration_fixed's inner loop for one note.
FixNoteSkippingDummy(note, beat_duration) ==
    IF note.dummy THEN note
    ELSE [note EXCEPT !.end = note.start + beat_duration]

FixNote(note, beat_duration) ==
    [note EXCEPT !.end = note.start + beat_duration]

\* adjust_chord_duration_fixed: every note of every non-drum instrument;
\* the code has no dummy test here.
adjust_chord_duration_fixed(m, beat_duration) ==
    [i \in DOMAIN m |->
        IF m[i].is_drum THEN m[i]
        ELSE [m[i] EXCEPT !.notes =
                [k \in DOMAIN m[i].notes |->
                    FixNote(m[i].notes[k], beat_duration)]]]

\* The filter of remove_dummy_notes: which notes stay.
KeepsAll(note) == TRUE

Keeps(note) == ~note.dummy

\* [note for note in instrument.notes if ...]: the notes from lo to hi are
\* taken in order (the range is halved to keep the evaluation shallow).
RECURSIVE FilterRange(_, _, _, _)
FilterRange(notes, lo, hi, kept) ==
    IF lo > hi \/ ~Evaluated(kept) THEN kept
    ELSE IF lo = hi
         THEN IF Keeps(notes[lo]) THEN Append(kept, notes[lo]) ELSE kept
         ELSE LET mid == (lo + hi) \div 2
              IN  FilterRange(notes, mid + 1, hi,
                              FilterRange(notes, lo, mid, kept))

FilterNotes(notes) == FilterRange(notes, 1, Len(notes), <<>>)

\* remove_dummy_notes: every instrument (drums too).
remove_dummy_notes(m) ==
    [i \in DOMAIN m |-> [m[i] EXCEPT !.notes = FilterNotes(m[i].notes)]]

(***************************************************************************)
(* util.py: connect_chord_notes_grouped.                                   *)
(***************************************************************************)
tolerance == 1

\* list.sort(key=lambda note: note.start): a stable sort by start.
RECURSIVE InsertByStart(_, _)
InsertByStart(sorted, note) ==
    IF sorted = <<>> \/ sorted[Len(sorted)].start <= note.start
    THEN Append(sorted, note)
    ELSE Append(InsertByStart(SubSeq(sorted, 1, Len(sorted) - 1), note),
                sorted[Len(sorted)])

\* The notes from lo to hi are inserted in order (the range is halved to
\* keep the evaluation shallow).
RECURSIVE SortFrom(_, _, _, _)
SortFrom(notes, lo, hi, sorted) ==
    IF lo > hi \/ ~Evaluated(sorted) THEN sorted
    ELSE IF lo = hi THEN InsertByStart(sorted, notes[lo])
         ELSE LET mid == (lo + hi) \div 2
              IN  SortFrom(notes, mid + 1, hi, SortFrom(notes, lo, mid, sorted))

sort_by_start(notes) == SortFrom(notes, 1, Len(notes), <<>>)

\* One turn of the grouping loop: a note joins the current group when its
\* start is within the tolerance of the start of the group's FIRST note.
\* Groups are sequences of positions in the sorted list; the current group
\* is never empty.
group_note(notes, k, st) ==
    IF Abs(notes[k].start - notes[st.current[1]].start) <= tolerance
    THEN [st EXCEPT !.current = Append(@, k)]
    ELSE [groups |-> Append(st.groups, st.current), current |-> <<k>>]

\* for note in instrument.notes[1:], over the positions lo..hi in order.
RECURSIVE group_notes(_, _, _, _)
group_notes(notes, lo, hi, st) ==
    IF lo > hi \/ ~Evaluated(st) THEN st
    ELSE IF lo = hi THEN group_note(notes, lo, st)
         ELSE LET mid == (lo + hi) \div 2
              IN  group_notes(notes, mid + 1, hi,
                              group_notes(notes, lo, mid, st))

\* groups.append(current_group) after the loop.
GroupsOf(sorted) ==
    LET st == group_notes(sorted, 2, Len(sorted),
                          [groups |-> <<>>, current |-> <<1>>])
    IN  Append(st.groups, st.current)

\* prev_group_end = max(n.end for n in groups[i - 1])
prev_group_end_min(notes, group) == SetMin({notes[k].end : k \in Range(group)})

prev_group_end(notes, group) == SetMax({notes[k].end : k \in Range(group)})

\* The inner loop: every note of the group is moved to start at `at`,
\* keeping its duration.
shift_group_keep_end(notes, group, at) ==
    AsList([k \in DOMAIN notes |->
        IF k \in Range(group) THEN [notes[k] EXCEPT !.start = at]
        ELSE notes[k]])

shift_group(notes, group, at) ==
    AsList([k \in DOMAIN notes |->
        IF k \in Range(group)
        THEN LET duration == notes[k].end - notes[k].start
             IN  [notes[k] EXCEPT !.start = at, !.end = at + duration]
        ELSE notes[k]])

\* for i in range(1, len(groups)), over the groups lo..hi in order: group i
\* is moved to the end of group i - 1 as that group stands by then (already
\* moved itself).
RECURSIVE shift_groups(_, _, _, _)
shift_groups(notes, groups, lo, hi) ==
    IF lo > hi \/ ~Evaluated(notes) THEN notes
    ELSE IF lo = hi
         THEN shift_group(notes, groups[lo],
                          prev_group_end(notes, groups[lo - 1]))
         ELSE LET mid == (lo + hi) \div 2
              IN  shift_groups(shift_groups(notes, groups, lo, mid),
                               groups, mid + 1, hi)

\* A variant that reads every previous group's end from the list as sorted,
\* before any group was moved.
RECURSIVE shift_groups_snapshot(_, _, _, _)
shift_groups_snapshot(sorted, notes, groups, i) ==
    IF i > Len(groups) THEN notes
    ELSE shift_groups_snapshot(sorted,
            shift_group(notes, groups[i], prev_group_end(sorted, groups[i - 1])),
            groups, i + 1)

connect_notes_snapshot(notes) ==
    LET sorted == sort_by_start(notes)
    IN  shift_groups_snapshot(sorted, sorted, GroupsOf(sorted), 2)

\* The loop body for one non-drum, non-empty instrument: sort, group, shift.
connect_notes(notes) ==
    LET sorted == sort_by_start(notes)
        groups == GroupsOf(sorted)
    IN  shift_groups(sorted, groups, 2, Len(groups))

\* instrument.notes[0] raises IndexError on an empty non-drum instrument.
ConnectRaisesAt(m) ==
    {i \in DOMAIN m : ~m[i].is_drum /\ m[i].notes = <<>>}

\* The instruments are handled in order: those before the first one that
\* raises have already been changed when the exception leaves the function.
connect_chord_notes_grouped(m) ==
    LET stop == IF ConnectRaisesAt(m) = {} THEN Len(m) + 1
                ELSE SetMin(ConnectRaisesAt(m))
    IN  [i \in DOMAIN m |->
            IF m[i].is_drum \/ i >= stop THEN m[i]
            ELSE [m[i] EXCEPT !.notes = connect_notes(m[i].notes)]]

(***************************************************************************)
(* Inputs of the transform harness: MIDI objects as pretty_midi parses     *)
(* them (end >= start, pitch in 0..127, no note flagged).                  *)
(***************************************************************************)
Starts == {0, 1, 2, 4}

Durations == {0, 1, 2, 3}

MkNote(i, p, s, d) ==
    [id |-> i, pitch |-> p, velocity |-> 100, start |-> s, end |-> s + d,
     dummy |-> FALSE]

TimedNoteLists ==
    {[k \in DOMAIN f |-> MkNote(k, 60, f[k][1], f[k][2])] :
        f \in SeqsUpTo(Starts \X Durations, MaxNotes)}

DrumHit == <<MkNote(1, 0, 0, 2)>>

Layouts(noteLists) ==
    {<<[is_drum |-> d, notes |-> ns]>> : d \in BOOLEAN, ns \in noteLists}
    \cup {<<[is_drum |-> TRUE, notes |-> DrumHit],
            [is_drum |-> FALSE, notes |-> ns]>> : ns \in noteLists}

(***************************************************************************)
(* SpecGroup: connect_chord_notes_grouped called up to MaxCalls times on   *)
(* an arbitrary parsed MIDI object.                                        *)
(***************************************************************************)
InitGroup ==
    /\ midi \in Layouts(TimedNoteLists)
    /\ before = midi
    /\ orig = midi
    /\ op = "input"
    /\ arg = 0
    /\ calls = 0
    /\ files = NoFiles
    /\ inv = <<>>
    /\ pc = "harness"
    /\ req = <<>>
    /\ src = <<>>
    /\ loc = <<>>
    /\ measures = <<>>
    /\ output = <<>>
    /\ response = <<>>

Connect ==
    /\ calls < MaxCalls
    /\ op \in {"input", "connect"}
    /\ midi' = connect_chord_notes_grouped(midi)
    /\ before' = midi
    /\ op' = IF ConnectRaisesAt(midi) = {} THEN "connect" ELSE "IndexError"
    /\ calls' = calls + 1
    /\ UNCHANGED <<orig, arg>>
    /\ UNCHANGED <<pipeVars, fsVars>>

NextGroup == Connect

SpecGroup == InitGroup /\ [][NextGroup]_vars

(***************************************************************************)
(* util.py: get_fixed_beat_duration, in milliseconds per beat.             *)
(***************************************************************************)
get_fixed_beat_duration(time_sig) ==
    IF time_sig = <<4, 4>> THEN 500
    ELSE IF time_sig = <<3, 4>> THEN 660
    ELSE IF time_sig = <<2, 4>> THEN 1000
    ELSE 500

(***************************************************************************)
(* SpecStages: on an arbitrary parsed MIDI object, mark_dummy_notes        *)
(* (or not) and then one of the other transforms, as the pipeline orders   *)
(* them: the flag exists only once mark_dummy_notes has set it.            *)
(***************************************************************************)
Pitches == {0, 1, 60, 127}

SynthDurations == {500, 667}

PitchedNoteLists ==
    {[k \in DOMAIN f |-> MkNote(k, f[k][1], 667 * (k - 1), f[k][2])] :
        f \in SeqsUpTo(Pitches \X SynthDurations, MaxNotes)}

Semitones == {-128, -24, -1, 0, 1, 24, 128}

Volumes == {1, 90}

TimeSignatures == {<<4, 4>>, <<3, 4>>, <<2, 4>>, <<6, 8>>}

InitStages ==
    /\ midi \in Layouts(PitchedNoteLists)
    /\ before = midi
    /\ orig = midi
    /\ op = "input"
    /\ arg = 0
    /\ calls = 0
    /\ files = NoFiles
    /\ inv = <<>>
    /\ pc = "harness"
    /\ req = <<>>
    /\ src = <<>>
    /\ loc = <<>>
    /\ measures = <<>>
    /\ output = <<>>
    /\ response = <<>>

Called(name, a, result) ==
    /\ midi' = result
    /\ before' = midi
    /\ op' = name
    /\ arg' = a
    /\ calls' = calls + 1
    /\ UNCHANGED orig

MarkDummy ==
    /\ UNCHANGED <<pipeVars, fsVars>>
    /\ op = "input"
    /\ Called("mark", 0, mark_dummy_notes(midi))

ApplyVolume ==
    /\ UNCHANGED <<pipeVars, fsVars>>
    /\ op \in {"input", "mark"}
    /\ \E volume \in Volumes :
        Called("volume", volume, apply_volume_to_midi(midi, volume))

AdjustDuration ==
    /\ UNCHANGED <<pipeVars, fsVars>>
    /\ op \in {"input", "mark"}
    /\ \E time_sig \in TimeSignatures :
        LET beat_duration == get_fixed_beat_duration(time_sig)
        IN  Called("adjust", beat_duration,
                   adjust_chord_duration_fixed(midi, beat_duration))

Transpose ==
    /\ UNCHANGED <<pipeVars, fsVars>>
    /\ op \in {"input", "mark"}
    /\ \E semitones \in Semitones :
        Called("transpose", semitones, transpose_midi(midi, semitones))

RemoveDummy ==
    /\ UNCHANGED <<pipeVars, fsVars>>
    /\ op \in {"input", "mark"}
    /\ Called("remove", 0, remove_dummy_notes(midi))

NextStages ==
    \/ MarkDummy
    \/ ApplyVolume
    \/ AdjustDuration
    \/ Transpose
    \/ RemoveDummy

SpecStages == InitStages /\ [][NextStages]_vars

(***************************************************************************)
(* util.py: source analysis.  A source file is [parsable,                  *)
(* key_signature_changes, instruments, estimable, estimate]: whether       *)
(* pretty_midi.PrettyMIDI(file) succeeds, the key numbers of its key       *)
(* signature events, its instruments, whether estimate_tempo() succeeds    *)
(* (it raises on fewer than two notes) and what it returns.                *)
(***************************************************************************)
AllNotes(instruments) ==
    UNION {Range(instruments[i].notes) : i \in DOMAIN instruments}

\* midi_data.get_end_time()
get_end_time(file) ==
    IF AllNotes(file.instruments) = {} THEN 0
    ELSE SetMax({n.end : n \in AllNotes(file.instruments)})

\* get_midi_info: (tempo, duration), or raised.
get_midi_info(file) ==
    IF file.parsable /\ file.estimable
    THEN [raised |-> FALSE, tempo |-> file.estimate,
          duration |-> get_end_time(file)]
    ELSE [raised |-> TRUE, tempo |-> 0, duration |-> 0]

\* The circle-of-fifths table of get_midi_key.
KeyNames ==
    [k \in -7..7 |->
        CASE k = 0 -> "C" [] k = 1 -> "G" [] k = 2 -> "D" [] k = 3 -> "A"
          [] k = 4 -> "E" [] k = 5 -> "B" [] k = 6 -> "F#" [] k = 7 -> "C#"
          [] k = -1 -> "F" [] k = -2 -> "Bb" [] k = -3 -> "Eb"
          [] k = -4 -> "Ab" [] k = -5 -> "Db" [] k = -6 -> "Gb"
          [] k = -7 -> "Cb"]

\* get_midi_key: never raises.
get_midi_key(file, default_key) ==
    IF ~file.parsable THEN default_key
    ELSE IF file.key_signature_changes # <<>>
         THEN LET key_number == file.key_signature_changes[1]
              IN  IF key_number \in DOMAIN KeyNames THEN KeyNames[key_number]
                  ELSE default_key
         ELSE default_key

RECURSIVE SumVelocities(_)
SumVelocities(notes) ==
    IF notes = <<>> THEN 0
    ELSE Head(notes).velocity + SumVelocities(Tail(notes))

RECURSIVE SumOver(_, _)
SumOver(instruments, count) ==
    IF instruments = <<>> THEN 0
    ELSE (IF count THEN Len(Head(instruments).notes)
          ELSE SumVelocities(Head(instruments).notes))
         + SumOver(Tail(instruments), count)

\* int(round(a / b)) for a >= 0, b > 0: Python rounds halves to even.
RoundHalfEven(a, b) ==
    LET q == a \div b
        r == a % b
    IN  IF 2 * r < b THEN q
        ELSE IF 2 * r > b THEN q + 1
        ELSE IF q % 2 = 0 THEN q ELSE q + 1

\* A variant that answers the default when the file cannot be parsed.
compute_average_velocity_lenient(file) ==
    IF ~file.parsable \/ SumOver(file.instruments, TRUE) = 0
    THEN [raised |-> FALSE, value |-> 90]
    ELSE [raised |-> FALSE,
          value |-> RoundHalfEven(SumOver(file.instruments, FALSE),
                                  SumOver(file.instruments, TRUE))]

\* compute_average_velocity: raises RuntimeError when the file cannot be
\* parsed, answers 90 when it holds no note.
compute_average_velocity(file) ==
    IF ~file.parsable THEN [raised |-> TRUE, value |-> 0]
    ELSE IF SumOver(file.instruments, TRUE) = 0
         THEN [raised |-> FALSE, value |-> 90]
         ELSE [raised |-> FALSE,
               value |-> RoundHalfEven(SumOver(file.instruments, FALSE),
                                       SumOver(file.instruments, TRUE))]

(***************************************************************************)
(* util.py: note_from_string, parse_mode, generate_chord_measures.         *)
(***************************************************************************)
\* note_str.strip().upper() on the strings the model uses.
StripUpper(note_str) ==
    CASE note_str = "c" -> "C"
      [] note_str = " g " -> "G"
      [] note_str = "Bb" -> "BB"
      [] note_str = "Eb" -> "EB"
      [] note_str = "Ab" -> "AB"
      [] note_str = "Db" -> "DB"
      [] note_str = "Gb" -> "GB"
      [] note_str = "Cb" -> "CB"
      [] OTHER -> note_str

\* mode_str.lower().strip() on the strings the model uses.
LowerStrip(mode_str) ==
    CASE mode_str = "Major" -> "major"
      [] mode_str = "Minor" -> "minor"
      [] mode_str = " MINOR" -> "minor"
      [] OTHER -> mode_str

\* note_from_string: the Note, or raised (ValueError).
note_from_string(note_str) ==
    IF StripUpper(note_str) \in {"C", "D", "E", "F", "G", "A", "B"}
    THEN [raised |-> FALSE, note |-> StripUpper(note_str)]
    ELSE [raised |-> TRUE, note |-> ""]

\* parse_mode: the Mode, or raised (ValueError).
parse_mode(mode_str) ==
    IF LowerStrip(mode_str) \in {"major", "minor"}
    THEN [raised |-> FALSE, mode |-> LowerStrip(mode_str)]
    ELSE [raised |-> TRUE, mode |-> ""]

\* midigen's Key(note, mode).relative_key(degree).chord(): the diatonic
\* triad on a scale degree, as absolute pitches.
NotePitch(note) ==
    CASE note = "C" -> 60 [] note = "D" -> 62 [] note = "E" -> 64
      [] note = "F" -> 65 [] note = "G" -> 67 [] note = "A" -> 69
      [] note = "B" -> 71

ScaleIntervals(mode) ==
    IF mode = "major" THEN <<0, 2, 4, 5, 7, 9, 11>>
    ELSE <<0, 2, 3, 5, 7, 8, 10>>

ScalePitch(note, mode, step) ==
    NotePitch(note) + ScaleIntervals(mode)[(step % 7) + 1] + 12 * (step \div 7)

Triad(note, mode, degree) ==
    <<ScalePitch(note, mode, degree - 1), ScalePitch(note, mode, degree + 1),
      ScalePitch(note, mode, degree + 3)>>

\* The chord of one progression entry: [0] for a rest.
ChordOf(note, mode, degree) ==
    IF degree = 0 THEN <<0>> ELSE Triad(note, mode, degree)

\* Measure.from_pattern(pattern=[chord] * numerator, ...): one slot per beat.
MeasureOf(chord, numerator) == [slot \in 1..numerator |-> chord]

\* The nested loop: for _ in range(repeats): for degree in progression.
Measures(note, mode, progression, numerator, repeats) ==
    [m \in 1..(repeats * Len(progression)) |->
        MeasureOf(ChordOf(note, mode,
                          progression[((m - 1) % Len(progression)) + 1]),
                  numerator)]

\* generate_chord_measures: the measure list, or raised (ValueError).
generate_chord_measures(key_str, mode_str, progression, time_sig, repeats) ==
    IF note_from_string(key_str).raised \/ parse_mode(mode_str).raised
    THEN [raised |-> TRUE, measures |-> <<>>]
    ELSE [raised |-> FALSE,
          measures |-> Measures(note_from_string(key_str).note,
                                parse_mode(mode_str).mode,
                                progression, time_sig[1], repeats)]

(***************************************************************************)
(* main.py: the repeat count, lines 166-169.                               *)
(***************************************************************************)
\* math.ceil(a / b) for a >= 0, b > 0.
\* Variant: the quotient rounded down instead of math.ceil.
FloorDiv(a, b) == a \div b

CeilDiv(a, b) == (a + b - 1) \div b

measure_length(time_sig) == time_sig[1] * get_fixed_beat_duration(time_sig)

total_measures_needed(duration, time_sig) ==
    CeilDiv(duration, measure_length(time_sig))

Repeats(duration, time_sig, progression) ==
    CeilDiv(total_measures_needed(duration, time_sig), Len(progression))

(***************************************************************************)
(* create_chord_midi_from_measures (midigen's Track / Song and the MIDI    *)
(* round trip): slot s (counted from 0 over all measures) starts at        *)
(* s * slot duration and lasts one slot; a rest gives one note of pitch    *)
(* 0, a chord one note per pitch; all notes are in one non-drum            *)
(* instrument.                                                             *)
(***************************************************************************)
SlotDuration(tempo, time_sig) == ((60000 \div tempo) * 4) \div time_sig[2]

\* The notes of the measures lo..hi, slot after slot (the range is halved
\* to keep the evaluation shallow).  A note's id is its place in the list.
RECURSIVE MeasureNotes(_, _, _, _, _)
MeasureNotes(ms, lo, hi, acc, slot_duration) ==
    IF lo > hi \/ ~Evaluated(acc) THEN acc
    ELSE IF lo = hi
         THEN LET numerator == Len(ms[lo])
                  chord == ms[lo][1]
                  size == Len(chord)
              IN  acc \o
                  [q \in 1..(numerator * size) |->
                    MkNote(Len(acc) + q, chord[((q - 1) % size) + 1],
                           ((lo - 1) * numerator + (q - 1) \div size)
                                * slot_duration,
                           slot_duration)]
         ELSE LET mid == (lo + hi) \div 2
              IN  MeasureNotes(ms, mid + 1, hi,
                               MeasureNotes(ms, lo, mid, acc, slot_duration),
                               slot_duration)

create_chord_midi_from_measures(ms, tempo, time_sig) ==
    IF ms = <<>> THEN <<>>
    ELSE <<[is_drum |-> FALSE,
            notes |-> MeasureNotes(ms, 1, Len(ms), <<>>,
                                   SlotDuration(tempo, time_sig))]>>

(***************************************************************************)
(* main.py: combine_midi from line 129 on, one action per statement of     *)
(* the handler.  Requests are those that passed lines 119-147.             *)
(***************************************************************************)
Keys == {"C", "G"}

Modes == {"Major", " MINOR", "Lydian"}

Progressions == {<<2, 5, 0, 1>>, <<2, 5, 1, 6>>, <<4, 0>>, <<0>>}

Tempos == {90, 120}

Requests ==
    [key : Keys, mode : Modes, progression : Progressions,
     time_sig : TimeSignatures, tempo : Tempos]

SourceNote(i, v, s, e) == [MkNote(i, 72, s, e - s) EXCEPT !.velocity = v]

SourceEndTimes == {1900, 6001}

SourceInstruments ==
    {<<>>, <<[is_drum |-> FALSE, notes |-> <<SourceNote(1, 64, 0, 400)>>]>>}
    \cup {<<[is_drum |-> FALSE,
             notes |-> <<SourceNote(1, 64, 0, 500),
                         SourceNote(2, 81, 500, e)>>]>> : e \in SourceEndTimes}

Unparsable ==
    [parsable |-> FALSE, key_signature_changes |-> <<>>,
     instruments |-> <<>>, estimable |-> FALSE, estimate |-> 0]

SourceFiles ==
    {Unparsable} \cup
    {f \in [parsable : {TRUE}, key_signature_changes : {<<>>, <<1, 6>>, <<6>>},
            instruments : SourceInstruments, estimable : BOOLEAN,
            estimate : {100}] :
        f.estimable => Cardinality(AllNotes(f.instruments)) >= 2}

\* The order of the handler's statements, lines 151-204.
StageOrderStripFirst ==
    <<"get_key", "get_info", "plan", "generate", "synthesize", "mark",
      "volume", "adjust", "remove", "connect", "transpose", "combine",
      "delete", "send", "done">>

StageOrder ==
    <<"get_key", "get_info", "plan", "generate", "synthesize", "mark",
      "volume", "adjust", "connect", "transpose", "remove", "combine",
      "delete", "send", "done">>

After(stage) ==
    StageOrder[(CHOOSE k \in DOMAIN StageOrder : StageOrder[k] = stage) + 1]

NoLocals ==
    [detected_key |-> "", tempo |-> 0, duration |-> 0, info_raised |-> FALSE,
     beat_duration |-> 0, measure_length |-> 0, total_measures_needed |-> 0,
     repeats |-> 0, desired_volume |-> 0]

Init ==
    /\ pc = "get_key"
    /\ req \in Requests
    /\ src \in SourceFiles
    /\ loc = NoLocals
    /\ measures = <<>>
    /\ output = <<>>
    /\ response = [status |-> 0, stage |-> ""]
    /\ midi = <<>>
    /\ before = <<>>
    /\ orig = <<>>
    /\ op = "input"
    /\ arg = 0
    /\ calls = 0
    /\ files = NoFiles
    /\ inv = <<>>

\* except Exception as e: return jsonify({"error": str(e)}), 500
Raise ==
    /\ response' = [status |-> 500, stage |-> pc]
    /\ pc' = "error"

Go == pc' = After(pc)

\* detected_key = get_midi_key(input_midi_file, default_key=key)
StepGetKey ==
    /\ pc = "get_key"
    /\ loc' = [loc EXCEPT !.detected_key = get_midi_key(src, req.key)]
    /\ Go
    /\ UNCHANGED <<fsVars, utilVars, req, src, measures, output, response>>

\* try: tempo, duration = get_midi_info(...) except: default tempo, 60 s
StepGetInfo ==
    /\ pc = "get_info"
    /\ LET info == get_midi_info(src)
       IN  loc' = IF info.raised
                  THEN [loc EXCEPT !.tempo = req.tempo, !.duration = 60000,
                                   !.info_raised = TRUE]
                  ELSE [loc EXCEPT !.tempo = info.tempo,
                                   !.duration = info.duration]
    /\ Go
    /\ UNCHANGED <<fsVars, utilVars, req, src, measures, output, response>>

\* beat_duration, measure_length, total_measures_needed, repeats
StepPlan ==
    /\ pc = "plan"
    /\ loc' = [loc EXCEPT
                !.beat_duration = get_fixed_beat_duration(req.time_sig),
                !.measure_length = measure_length(req.time_sig),
                !.total_measures_needed =
                    total_measures_needed(loc.duration, req.time_sig),
                !.repeats = Repeats(loc.duration, req.time_sig,
                                    req.progression)]
    /\ Go
    /\ UNCHANGED <<fsVars, utilVars, req, src, measures, output, response>>

\* measures = generate_chord_measures(detected_key, mode_str, ...)
StepGenerate ==
    /\ pc = "generate"
    /\ LET g == generate_chord_measures(loc.detected_key, req.mode,
                    req.progression, req.time_sig, loc.repeats)
       IN  IF g.raised
           THEN Raise /\ UNCHANGED measures
           ELSE Go /\ measures' = g.measures /\ UNCHANGED response
    /\ UNCHANGED <<fsVars, utilVars, req, src, loc, output>>

\* chord_midi_object = create_chord_midi_from_measures(measures, tempo)
StepSynthesize ==
    /\ pc = "synthesize"
    /\ LET m == create_chord_midi_from_measures(measures, loc.tempo,
                                                req.time_sig)
       IN  /\ midi' = m
           /\ before' = m
           /\ orig' = m
    /\ Go
    /\ UNCHANGED <<fsVars, op, arg, calls, req, src, loc, measures, output,
                   response>>

StepMark ==
    /\ pc = "mark"
    /\ Called("mark", 0, mark_dummy_notes(midi))
    /\ Go
    /\ UNCHANGED <<fsVars, req, src, loc, measures, output, response>>

\* desired_volume = compute_average_velocity(...); apply_volume_to_midi(...)
StepVolume ==
    /\ pc = "volume"
    /\ LET v == compute_average_velocity(src)
       IN  IF v.raised
           THEN Raise /\ UNCHANGED <<utilVars, loc>>
           ELSE /\ Go
                /\ loc' = [loc EXCEPT !.desired_volume = v.value]
                /\ Called("volume", v.value,
                          apply_volume_to_midi(midi, v.value))
                /\ UNCHANGED response
    /\ UNCHANGED <<fsVars, req, src, measures, output>>

StepAdjust ==
    /\ pc = "adjust"
    /\ Called("adjust", loc.beat_duration,
              adjust_chord_duration_fixed(midi, loc.beat_duration))
    /\ Go
    /\ UNCHANGED <<fsVars, req, src, loc, measures, output, response>>

StepConnect ==
    /\ pc = "connect"
    /\ Called(IF ConnectRaisesAt(midi) = {} THEN "connect" ELSE "IndexError",
              0, connect_chord_notes_grouped(midi))
    /\ IF ConnectRaisesAt(midi) = {} THEN Go /\ UNCHANGED response ELSE Raise
    /\ UNCHANGED <<fsVars, req, src, loc, measures, output>>

\* transpose_midi(chord_midi_object, -24)
StepTranspose ==
    /\ pc = "transpose"
    /\ Called("transpose", -24, transpose_midi(midi, -24))
    /\ Go
    /\ UNCHANGED <<fsVars, req, src, loc, measures, output, response>>

StepRemove ==
    /\ pc = "remove"
    /\ Called("remove", 0, remove_dummy_notes(midi))
    /\ Go
    /\ UNCHANGED <<fsVars, req, src, loc, measures, output, response>>

\* combine_midis: re-reads the source (raises if it cannot be parsed),
\* appends the chord instruments and writes the output file.
StepCombine ==
    /\ pc = "combine"
    /\ IF src.parsable
       THEN Go /\ output' = src.instruments \o midi /\ UNCHANGED response
       ELSE Raise /\ UNCHANGED output
    /\ UNCHANGED <<fsVars, utilVars, req, src, loc, measures>>

\* os.remove(input_midi_file)
StepDelete ==
    /\ pc = "delete"
    /\ Go
    /\ UNCHANGED <<fsVars, utilVars, req, src, loc, measures, output,
                   response>>

\* return send_file(output_file, ...)
StepSend ==
    /\ pc = "send"
    /\ Go
    /\ response' = [status |-> 200, stage |-> "send"]
    /\ UNCHANGED <<fsVars, utilVars, req, src, loc, measures, output>>

Next ==
    \/ StepGetKey
    \/ StepGetInfo
    \/ StepPlan
    \/ StepGenerate
    \/ StepSynthesize
    \/ StepMark
    \/ StepVolume
    \/ StepAdjust
    \/ StepConnect
    \/ StepTranspose
    \/ StepRemove
    \/ StepCombine
    \/ StepDelete
    \/ StepSend

Spec == Init /\ [][Next]_vars

(***************************************************************************)
(* SpecPlan: lines 166-172 alone (the repeat count and the measure list)   *)
(* for source durations around every multiple of the measure length, and   *)
(* the 60 s of the fallback.                                               *)
(***************************************************************************)
PlanTimeSignatures == (1..MaxNumerator) \X {2, 4, 8}

PlanProgressions ==
    {[m \in 1..len |-> (m + shift) % 8] :
        len \in 1..MaxProgression, shift \in {0, 2}}

PlanDurations(time_sig) ==
    {d \in {k * measure_length(time_sig) + e :
                k \in 0..MaxWholeMeasures, e \in {-1, 0, 1, 250}} : d > 0}
    \cup {60000}

InitPlan ==
    /\ pc = "plan"
    /\ req \in [key : {"C"}, mode : {"Major"}, progression : PlanProgressions,
                time_sig : PlanTimeSignatures, tempo : {90}]
    /\ src = Unparsable
    /\ \E d \in PlanDurations(req.time_sig) :
        loc = [NoLocals EXCEPT !.detected_key = req.key, !.tempo = req.tempo,
                               !.duration = d]
    /\ measures = <<>>
    /\ output = <<>>
    /\ response = [status |-> 0, stage |-> ""]
    /\ midi = <<>>
    /\ before = <<>>
    /\ orig = <<>>
    /\ op = "input"
    /\ arg = 0
    /\ calls = 0
    /\ files = NoFiles
    /\ inv = <<>>

NextPlan ==
    \/ StepPlan
    \/ StepGenerate

SpecPlan == InitPlan /\ [][NextPlan]_vars

(***************************************************************************)
(* SpecConc: two combine_midi requests served at the same time (app.run    *)
(* serves each request in its own thread), seen through the files they     *)
(* touch: lines 130-132 save the upload under the client's file name,      *)
(* lines 151-182 read it, combine_midis (line 198) reads it again and      *)
(* writes uploads/combined_output.mid, line 201 removes the upload and     *)
(* line 204 sends uploads/combined_output.mid.                             *)
(***************************************************************************)
Invocations == {1, 2}

Upload(i) == [kind |-> "upload", of |-> i]

Merged(i) == [kind |-> "merged", of |-> i]

At(i, stage) == inv[i].pc = stage

\* except Exception as e: return jsonify({"error": str(e)}), 500
Fail(i) == inv' = [inv EXCEPT ![i].pc = "error", ![i].status = 500]

InitConc ==
    /\ files = NoFiles
    /\ inv \in [Invocations ->
                    [pc : {"save"}, name : UploadNames, analysed : {Absent},
                     returned : {Absent}, status : {0}]]
    /\ pc = "concurrent"
    /\ req = <<>>
    /\ src = <<>>
    /\ loc = <<>>
    /\ measures = <<>>
    /\ output = <<>>
    /\ response = <<>>
    /\ midi = <<>>
    /\ before = <<>>
    /\ orig = <<>>
    /\ op = "input"
    /\ arg = 0
    /\ calls = 0

\* file.save(input_midi_file)
SaveUpload ==
    \E i \in Invocations :
        /\ At(i, "save")
        /\ files' = [files EXCEPT ![inv[i].name] = Upload(i)]
        /\ inv' = [inv EXCEPT ![i].pc = "process"]
        /\ UNCHANGED <<utilVars, pipeVars>>

\* get_midi_key, get_midi_info, compute_average_velocity read the upload;
\* compute_average_velocity raises when the file is not there.
Process ==
    \E i \in Invocations :
        /\ At(i, "process")
        /\ IF files[inv[i].name] = Absent
           THEN Fail(i)
           ELSE inv' = [inv EXCEPT ![i].pc = "write",
                                   ![i].analysed = files[inv[i].name]]
        /\ UNCHANGED <<utilVars, pipeVars, files>>

\* combine_midis(input_midi_file, chord_midi_object, output_file)
WriteOutput ==
    \E i \in Invocations :
        /\ At(i, "write")
        /\ IF files[inv[i].name] = Absent
           THEN Fail(i) /\ UNCHANGED files
           ELSE /\ files' = [files EXCEPT
                                ![output_file] = Merged(files[inv[i].name].of)]
                /\ inv' = [inv EXCEPT ![i].pc = "delete"]
        /\ UNCHANGED <<utilVars, pipeVars>>

\* os.remove(input_midi_file)
DeleteInput ==
    \E i \in Invocations :
        /\ At(i, "delete")
        /\ IF files[inv[i].name] = Absent
           THEN Fail(i) /\ UNCHANGED files
           ELSE /\ files' = [files EXCEPT ![inv[i].name] = Absent]
                /\ inv' = [inv EXCEPT ![i].pc = "send"]
        /\ UNCHANGED <<utilVars, pipeVars>>

\* return send_file(output_file, ...)
SendOutput ==
    \E i \in Invocations :
        /\ At(i, "send")
        /\ IF files[output_file] = Absent
           THEN Fail(i)
           ELSE inv' = [inv EXCEPT ![i].pc = "done", ![i].status = 200,
                                   ![i].returned = files[output_file]]
        /\ UNCHANGED <<utilVars, pipeVars, files>>

NextConc ==
    \/ SaveUpload
    \/ Process
    \/ WriteOutput
    \/ DeleteInput
    \/ SendOutput

SpecConc == InitConc /\ [][NextConc]_vars

(***************************************************************************)
(* SpecKey: lines 151-172 alone (key detection up to the measure list)     *)
(* for sources with every key number in and around the table of            *)
(* get_midi_key, and requests whose key is one of the seven natural        *)
(* letters and whose mode is supported.                                    *)
(***************************************************************************)
NaturalKeys == {"C", "D", "E", "F", "G", "A", "B"}

\* ks.key_number: the table's -7..7, pretty_midi's 0..23, and one beyond.
KeyNumbers == -8..24

KeySources ==
    {Unparsable} \cup
    {f \in [parsable : {TRUE},
            key_signature_changes :
                {<<>>} \cup {<<k>> : k \in KeyNumbers}
                       \cup {<<k, 0>> : k \in {6, -2}},
            instruments : SourceInstruments, estimable : BOOLEAN,
            estimate : {100}] :
        f.estimable => Cardinality(AllNotes(f.instruments)) >= 2}

InitKey ==
    /\ pc = "get_key"
    /\ req \in [key : NaturalKeys, mode : {"Major", "Minor"},
                progression : {<<2, 5, 1, 6>>}, time_sig : {<<4, 4>>},
                tempo : {90}]
    /\ src \in KeySources
    /\ loc = NoLocals
    /\ measures = <<>>
    /\ output = <<>>
    /\ response = [status |-> 0, stage |-> ""]
    /\ midi = <<>>
    /\ before = <<>>
    /\ orig = <<>>
    /\ op = "input"
    /\ arg = 0
    /\ calls = 0
    /\ files = NoFiles
    /\ inv = <<>>

NextKey ==
    \/ StepGetKey
    \/ StepGetInfo
    \/ StepPlan
    \/ StepGenerate

SpecKey == InitKey /\ [][NextKey]_vars

(***************************************************************************)
(* Properties of connect_chord_notes_grouped (SpecGroup).                  *)
(***************************************************************************)
NoteById(notes, i) == CHOOSE n \in Range(notes) : n.id = i

Ids(notes) == {n.id : n \in Range(notes)}

\* Some note of a non-drum instrument starts elsewhere in b than in a.
Moved(a, b) ==
    \E i \in DOMAIN a : \E n \in Range(a[i].notes) :
        /\ n.id \in Ids(b[i].notes)
        /\ NoteById(b[i].notes, n.id).start # n.start

\* The notes the call leaves alone: those starting within the tolerance of
\* the earliest start.
FirstGroupIds(notes) ==
    LET first == SetMin({n.start : n \in Range(notes)})
    IN  {n.id : n \in {x \in Range(notes) : x.start <= first + tolerance}}

\* C2: NoteGrouper is idempotent: a second call on the output of a first
\* call leaves every instrument's note list (each note's pitch, start and
\* end, and the order of the list) exactly as the first call left it.
C2_Idempotent ==
    (op = "connect" /\ calls >= 2) => midi = before

\* Every start-time group of every non-drum instrument has a note that
\* lasts longer than the grouping tolerance.
LongGroups(m) ==
    \A i \in DOMAIN m :
        (~m[i].is_drum /\ m[i].notes # <<>>) =>
            LET sorted == sort_by_start(m[i].notes)
                groups == GroupsOf(sorted)
            IN  \A g \in DOMAIN groups : \E k \in Range(groups[g]) :
                    sorted[k].end - sorted[k].start > tolerance

\* C2 (amended): on a note list whose every start-time group has a note
\* longer than the 1 ms tolerance, a second call leaves every note list
\* exactly as the first call left it.
C2_IdempotentLongNotes ==
    (op = "connect" /\ calls >= 2 /\ LongGroups(orig)) => midi = before

\* C2's case: the first call moved a note of such a list, then a second
\* call ran.
C2_Witness ==
    /\ op = "connect"
    /\ calls = 2
    /\ LongGroups(orig)
    /\ Moved(orig, before)

\* C7: a call of NoteGrouper keeps every note (same ids), and each note's
\* duration, pitch, velocity and flag; the notes of the first group keep
\* their start and end as well.
C7_DurationKept ==
    op = "connect" =>
        \A i \in DOMAIN midi :
            /\ Ids(midi[i].notes) = Ids(before[i].notes)
            /\ Len(midi[i].notes) = Len(before[i].notes)
            /\ \A n \in Range(midi[i].notes) :
                LET b == NoteById(before[i].notes, n.id)
                IN  /\ n.end - n.start = b.end - b.start
                    /\ n.pitch = b.pitch
                    /\ n.velocity = b.velocity
                    /\ n.dummy = b.dummy
                    /\ n.id \in FirstGroupIds(before[i].notes) => n = b

\* C7's case: the call moved a note whose duration is not zero.
C7_Witness ==
    /\ op = "connect"
    /\ calls = 1
    /\ \E i \in DOMAIN midi : \E n \in Range(midi[i].notes) :
        /\ n.end - n.start > 0
        /\ NoteById(before[i].notes, n.id).start # n.start

Clamped(x) == IF x < 0 THEN 0 ELSE IF x > 127 THEN 127 ELSE x

\* C3: after Transposer every note of a non-percussion instrument has a
\* pitch in 0..127: clamp(old pitch + offset, 0, 127) when it is not a
\* placeholder, its old pitch when it is.
C3_TransposeClamped ==
    op = "transpose" =>
        \A i \in DOMAIN midi :
            (~midi[i].is_drum) =>
                /\ Len(midi[i].notes) = Len(before[i].notes)
                /\ \A k \in DOMAIN midi[i].notes :
                    LET n == midi[i].notes[k]
                        b == before[i].notes[k]
                    IN  /\ n.pitch \in 0..127
                        /\ b.dummy => n.pitch = b.pitch
                        /\ ~b.dummy => n.pitch = Clamped(b.pitch + arg)

\* C3's case: one call that left a placeholder alone, clamped one note at
\* 0 and moved another note inside the range.
C3_Witness ==
    /\ op = "transpose"
    /\ \E i \in DOMAIN midi : \E j, k, l \in DOMAIN midi[i].notes :
        /\ ~midi[i].is_drum
        /\ before[i].notes[j].dummy
        /\ ~before[i].notes[k].dummy
        /\ before[i].notes[k].pitch + arg < 0
        /\ midi[i].notes[k].pitch = 0
        /\ ~before[i].notes[l].dummy
        /\ midi[i].notes[l].pitch = before[i].notes[l].pitch + arg
        /\ arg # 0

\* C4: after DummyStripper no flagged note remains in any instrument, and
\* each instrument's list is its earlier list without the flagged notes:
\* the same non-flagged notes, in the same order and number.
C4_StripExact ==
    op = "remove" =>
        \A i \in DOMAIN midi :
            /\ \A n \in Range(midi[i].notes) : ~n.dummy
            /\ midi[i].notes =
                    SelectSeq(before[i].notes, LAMBDA n : ~n.dummy)
            /\ midi[i].is_drum = before[i].is_drum

\* C4's case: the list held a flagged note between two non-flagged ones.
C4_Witness ==
    /\ op = "remove"
    /\ \E i \in DOMAIN midi :
        /\ Len(before[i].notes) = 3
        /\ ~before[i].notes[1].dummy
        /\ before[i].notes[2].dummy
        /\ ~before[i].notes[3].dummy
        /\ Len(midi[i].notes) = 2

\* C9 as stated: DurationFixer gives every non-placeholder note
\* end = start + beat_duration and leaves every placeholder's start and
\* end as they were.
C9_OnlyNonPlaceholders ==
    op = "adjust" =>
        \A i \in DOMAIN midi :
            (~midi[i].is_drum) =>
                \A k \in DOMAIN midi[i].notes :
                    LET n == midi[i].notes[k]
                        b == before[i].notes[k]
                    IN  /\ n.start = b.start
                        /\ ~b.dummy => n.end = b.start + arg
                        /\ b.dummy => n.end = b.end

\* C9 (amended): DurationFixer gives every note of every non-percussion
\* instrument, placeholder or not, end = start + beat_duration with its
\* start, pitch, velocity and flag unchanged, and leaves percussion
\* instruments alone.
C9_EveryNonDrumNote ==
    op = "adjust" =>
        \A i \in DOMAIN midi :
            /\ Len(midi[i].notes) = Len(before[i].notes)
            /\ midi[i].is_drum => midi[i] = before[i]
            /\ (~midi[i].is_drum) =>
                \A k \in DOMAIN midi[i].notes :
                    midi[i].notes[k] =
                        [before[i].notes[k] EXCEPT
                            !.end = before[i].notes[k].start + arg]

\* C9's case: a placeholder whose synthesized length was not the beat
\* length has been given the beat length.
C9_Witness ==
    /\ op = "adjust"
    /\ \E i \in DOMAIN midi : \E k \in DOMAIN midi[i].notes :
        /\ before[i].notes[k].dummy
        /\ before[i].notes[k].end - before[i].notes[k].start # arg
        /\ midi[i].notes[k].end - midi[i].notes[k].start = arg

(***************************************************************************)
(* Properties of the repeat count and the measure list (SpecPlan).         *)
(***************************************************************************)
\* c is the least integer with c * b >= a.
IsCeil(c, a, b) == c * b >= a /\ (c - 1) * b < a

\* C5: with N the numerator, L the progression's length and
\* R = ceil(ceil(duration / (N * beat_duration)) / L), the measure list
\* holds exactly R * L measures of exactly N slots each, and
\* R * L >= ceil(duration / measure_length), so R * L measures last at
\* least as long as the source.
C5_Coverage ==
    (pc = "synthesize") =>
        LET N == req.time_sig[1]
            L == Len(req.progression)
            ml == N * get_fixed_beat_duration(req.time_sig)
            R == loc.repeats
        IN  /\ \E needed \in 0..(loc.duration \div ml + 1) :
                /\ IsCeil(needed, loc.duration, ml)
                /\ IsCeil(R, needed, L)
                /\ R * L >= needed
            /\ Len(measures) = R * L
            /\ \A m \in DOMAIN measures : Len(measures[m]) = N
            /\ R * L * ml >= loc.duration

\* C5's case: 4/4, 60 s and a progression of four entries give R = 8 and
\* 32 measures of 4 slots.
C5_Witness ==
    /\ pc = "synthesize"
    /\ req.time_sig = <<4, 4>>
    /\ loc.duration = 60000
    /\ Len(req.progression) = 4
    /\ loc.repeats = 8
    /\ Len(measures) = 32
    /\ Len(measures[32]) = 4

(***************************************************************************)
(* Properties of the handler (Spec).                                       *)
(***************************************************************************)
\* The slot (counted from 0 over all measures) a chord-track note was
\* synthesized for; a note's id is its place in the synthesized list.
SlotOf(n) ==
    orig[1].notes[n.id].start \div SlotDuration(loc.tempo, req.time_sig)

IsRest(measure) == measure[1] = <<0>>

\* The rest measures that lie between two chord measures.
RestBetweenChords ==
    {m \in 2..(Len(measures) - 1) :
        IsRest(measures[m]) /\ ~IsRest(measures[m - 1])
                            /\ ~IsRest(measures[m + 1])}

\* Every slot of every rest measure still has its flagged note.
PlaceholdersPresent(notes) ==
    LET N == req.time_sig[1]
    IN  \A m \in DOMAIN measures :
            IsRest(measures[m]) =>
                \A s \in ((m - 1) * N)..(m * N - 1) :
                    \E n \in Range(notes) : n.dummy /\ SlotOf(n) = s

\* Across a rest measure between two chords, the first slot of the later
\* chord starts one whole measure after the last slot of the earlier ends.
RestKeepsItsTime(notes) ==
    LET N == req.time_sig[1]
    IN  \A m \in RestBetweenChords :
            LET last == {n \in Range(notes) : SlotOf(n) = (m - 1) * N - 1}
                first == {n \in Range(notes) : SlotOf(n) = m * N}
            IN  /\ last # {}
                /\ first # {}
                /\ \A a \in last : \A b \in first :
                        b.start = a.end + N * loc.beat_duration

AfterConnect == {"transpose", "remove", "combine", "delete", "send", "done"}

\* C6: the flagged notes of the rest measures are present when the notes
\* are grouped and connected, so after it the first slot of a chord measure
\* that follows a rest measure starts numerator * beat_duration after the
\* end of the last slot of the chord measure before the rest; the flagged
\* notes are still present when the notes are transposed, are stripped only
\* afterwards, and none is in the merged output.
C6_RestsHoldTime ==
    /\ (op \in {"connect", "transpose"})
            => PlaceholdersPresent(before[1].notes)
    /\ (pc \in AfterConnect) => RestKeepsItsTime(midi[1].notes)
    /\ (pc = "done") =>
            /\ \A n \in AllNotes(output) : ~n.dummy
            /\ output[Len(output)] = midi[1]

\* C6's case: a request whose progression puts a rest between two chords
\* was answered with the merged file.
C6_Witness ==
    /\ pc = "done"
    /\ response.status = 200
    /\ RestBetweenChords # {}
    /\ output[Len(output)].notes # <<>>
    /\ \E a \in DOMAIN orig[1].notes : orig[1].notes[a].pitch = 0

BeforeVolume ==
    {"get_key", "get_info", "plan", "generate", "synthesize", "mark",
     "volume"}

\* C10 as stated: once get_midi_info has raised, a request whose key and
\* mode the generator accepts never ends in an error response.
C10_NeverFails ==
    (/\ loc.info_raised
     /\ ~generate_chord_measures(loc.detected_key, req.mode, req.progression,
                                 req.time_sig, 1).raised)
        => pc # "error"

\* C10, amended: when get_midi_info raises, the tempo is the request's and
\* the duration 60 s; the detected key is the request's key when the file
\* cannot be parsed or has no key signature; on a file that can be parsed
\* the volume is 90 when it holds no note and the only error left is the
\* generator's; on a file that cannot be parsed compute_average_velocity
\* raises, so the invocation ends in an error response at the volume stage
\* (or earlier at the generator) and never reaches the merge.
C10_FallbacksAndRaise ==
    /\ (pc # "get_key" /\ (~src.parsable \/ src.key_signature_changes = <<>>))
            => loc.detected_key = req.key
    /\ loc.info_raised =>
            /\ loc.tempo = req.tempo
            /\ loc.duration = 60000
            /\ src.parsable =>
                /\ (pc = "error") => response.stage = "generate"
                /\ (pc \notin BeforeVolume /\ pc # "error"
                        /\ AllNotes(src.instruments) = {})
                        => loc.desired_volume = 90
    /\ ~src.parsable =>
            /\ pc \in BeforeVolume \cup {"error"}
            /\ (pc = "error") => response.stage \in {"generate", "volume"}
            /\ (pc \notin {"get_key", "get_info"}) => loc.info_raised

\* C10's case: the source could not be parsed, the fallback tempo and
\* duration were used, and the invocation ended at the volume stage.
C10_Witness ==
    /\ pc = "error"
    /\ ~src.parsable
    /\ loc.info_raised
    /\ loc.tempo = req.tempo
    /\ loc.duration = 60000
    /\ measures # <<>>
    /\ response = [status |-> 500, stage |-> "volume"]

(***************************************************************************)
(* Properties of concurrent requests (SpecConc).                           *)
(***************************************************************************)
\* C1: each of two concurrent requests works on files of its own: between
\* saving and removing its upload the upload is still its own, what it
\* analysed was its own upload, between writing and sending the output the
\* output is still the one merged from its upload, and the file it
\* returns is the one merged from its upload.
C1_Isolated ==
    \A i \in Invocations :
        /\ (inv[i].pc \in {"process", "write", "delete"})
                => files[inv[i].name] = Upload(i)
        /\ (inv[i].pc \in {"write", "delete", "send", "done"})
                => inv[i].analysed = Upload(i)
        /\ (inv[i].pc \in {"delete", "send"}) => files[output_file] = Merged(i)
        /\ (inv[i].pc = "done") => inv[i].returned = Merged(i)

\* Both requests uploaded under names that differ from each other and from
\* the output's, and one was answered with the file merged from the
\* other's upload.
C1_ReturnsOthersFile ==
    /\ inv[1].name = "a.mid"
    /\ inv[2].name = "b.mid"
    /\ inv[1].status = 200
    /\ inv[1].returned = Merged(2)

(***************************************************************************)
(* Properties of key detection (SpecKey).                                  *)
(***************************************************************************)
\* C11: on a request whose key is a natural letter and whose mode is
\* supported, whatever the source's key signature, the key get_midi_key
\* returned is one note_from_string accepts, and the handler does not end
\* in the error generate_chord_measures raises.
C11_DetectedKeyAccepted ==
    /\ (pc # "get_key") => ~note_from_string(loc.detected_key).raised
    /\ (pc = "error") => response.stage # "generate"

\* The source's first key signature has key number 6, the request asked
\* for a natural key and a supported mode, and the handler answered 500
\* from generate_chord_measures.
C11_SharpKeyRejected ==
    /\ pc = "error"
    /\ response = [status |-> 500, stage |-> "generate"]
    /\ src.key_signature_changes = <<6>>
    /\ loc.detected_key = "F#"
    /\ req.key \in NaturalKeys
    /\ ~parse_mode(req.mode).raised

====
